---- MODULE Spec2Model ----
(***************************************************************************)
(* Model of website/models.py: the marketplace tables (Category, Product,  *)
(* PaymentMethod, PurchaseOrder, PurchaseItem, PurchasePaymentMethod, the   *)
(* user table they reference), their on_delete rules, the unique slug       *)
(* column and the pre_save receiver that fills it.                          *)
(*                                                                          *)
(* A save of a Product is two steps, as in Model.save(): the pre_save       *)
(* signal runs the receiver on the in-memory instance, then the row is      *)
(* written.  Several requests may be between the two steps at once.         *)
(***************************************************************************)
EXTENDS Integers, Sequences, FiniteSets

\* ------------------------------------------------------------------ bounds
MaxBarcodes == 2
MaxCategories == 2
MaxUsers == 1
MaxPaymentMethods == 1
MaxOrders == 1
MaxItems == 1
MaxAllocations == 1
\* No more than MaxRows rows are stored at once, over all tables.
MaxRows == 4

Barcodes == 1..MaxBarcodes
Categories == 1..MaxCategories
Users == 1..MaxUsers
PaymentMethods == 1..MaxPaymentMethods
Orders == 1..MaxOrders
Items == 1..MaxItems
Allocations == 1..MaxAllocations

\* ------------------------------------------------------------------ titles
\* A title is a sequence of characters.
TitleRedShirt == <<"R", "e", "d", " ", "S", "h", "i", "r", "t">>
TitlePunctuation == <<"!", " ", "-", " ", "?">>
Titles == {TitleRedShirt, TitlePunctuation}

Separator == "-"
UpperCase == {"R", "S"}
LowerCase == {"r", "e", "d", "s", "h", "i", "t", "p", "o", "u", "c", "x", "y", "z"}

Lower(c) == CASE c = "R" -> "r" [] c = "S" -> "s" [] OTHER -> c

IsWord(c) == c \in UpperCase \cup LowerCase
IsSpaceOrHyphen(c) == c \in {" ", "-"}

\* Drop every character that is neither a word character, whitespace nor a
\* hyphen, and lowercase the rest.
RECURSIVE KeepWordChars(_)
KeepWordChars(s) ==
    IF s = <<>> THEN <<>>
    ELSE IF IsWord(Head(s)) \/ IsSpaceOrHyphen(Head(s))
         THEN <<Lower(Head(s))>> \o KeepWordChars(Tail(s))
         ELSE KeepWordChars(Tail(s))

\* Replace each run of whitespace and hyphens by one separator.
RECURSIVE CollapseRuns(_)
CollapseRuns(s) ==
    IF s = <<>> THEN <<>>
    ELSE IF IsSpaceOrHyphen(Head(s))
         THEN IF Tail(s) # <<>> /\ IsSpaceOrHyphen(Head(Tail(s)))
              THEN CollapseRuns(Tail(s))
              ELSE <<Separator>> \o CollapseRuns(Tail(s))
         ELSE <<Head(s)>> \o CollapseRuns(Tail(s))

RECURSIVE StripLeft(_)
StripLeft(s) ==
    IF s # <<>> /\ Head(s) = Separator THEN StripLeft(Tail(s)) ELSE s

RECURSIVE StripRight(_)
StripRight(s) ==
    IF s # <<>> /\ s[Len(s)] = Separator
    THEN StripRight(SubSeq(s, 1, Len(s) - 1))
    ELSE s

\* The normalised base form of a title.
slugify(title) == StripRight(StripLeft(CollapseRuns(KeepWordChars(title))))

\* ------------------------------------------------------------ slug generator
FallbackBase == <<"p", "r", "o", "d", "u", "c", "t">>
TokenAlphabet == {"x", "y"}
TokenSize == 1
Tokens == [1..TokenSize -> TokenAlphabet]

\* The slugs held by the rows of the product table.
SlugsOf(db) == {db[b].slug : b \in DOMAIN db}

\* The base form the generator starts from: the normalised title, or the
\* fallback when that is empty.  (Tabulated over Titles, so that each title
\* is normalised once.)
BaseForms ==
    [t \in Titles |-> IF slugify(t) = <<>> THEN FallbackBase ELSE slugify(t)]
BaseOf(title) == BaseForms[title]

WithToken(base, tok) == base \o <<Separator>> \o tok

\* Every slug the generator can return for the instance against the rows of
\* db: the base form when no row holds it, otherwise the base form with a
\* random token, redrawn until no row holds the candidate.  When every
\* candidate is held the redrawing never ends: the set is empty and the save
\* does not proceed.
unique_slug_generator(instance, db) ==
    LET base == BaseOf(instance.title)
    IN  IF base \notin SlugsOf(db)
        THEN {base}
        ELSE {WithToken(base, tok) : tok \in Tokens} \ SlugsOf(db)

\* ------------------------------------------------------------------ state
VARIABLES
    users,           \* ids of the rows of settings.AUTH_USER_MODEL
    categories,      \* ids of the Category rows
    paymentMethods,  \* ids of the PaymentMethod rows
    products,        \* barcode -> Product row, for the rows that exist
    orders,          \* id -> PurchaseOrder row
    items,           \* id -> PurchaseItem row
    allocations,     \* id -> PurchasePaymentMethod row
    response,        \* how the last storage operation of a caller ended
    requests         \* per request: where its Product.save() stands

vars == <<users, categories, paymentMethods, products, orders, items,
          allocations, response, requests>>

\* The two requests that may save Products at the same time.
Requests == {"r1", "r2"}

NoSlug == <<>>
NoInstance == [barcode |-> 0, title |-> <<>>, slug |-> NoSlug, category |-> 0]
IdleRequest(outcome) ==
    [pc |-> "idle", instance |-> NoInstance, before |-> NoSlug,
     generated |-> FALSE, raced |-> FALSE, outcome |-> outcome]

NewInstance(b, t, c) ==
    [barcode |-> b, title |-> t, slug |-> NoSlug, category |-> c]

Row(instance) ==
    [title |-> instance.title, slug |-> instance.slug,
     category |-> instance.category]

TotalRows ==
    Cardinality(users) + Cardinality(categories) + Cardinality(paymentMethods)
    + Cardinality(DOMAIN products) + Cardinality(DOMAIN orders)
    + Cardinality(DOMAIN items) + Cardinality(DOMAIN allocations)

\* A system-assigned key: the least key of the pool that no row holds.
FreeKeys(pool, table) == pool \ DOMAIN table
NewKey(pool, table) ==
    CHOOSE k \in FreeKeys(pool, table) : \A j \in FreeKeys(pool, table) : k <= j

Restrict(table, keep) == [k \in keep |-> table[k]]

\* What a caller gets back: how the operation ended and, as delete() returns
\* it, the number of rows deleted per model (the models that lost rows).
Response(status, deleted) ==
    [status |-> status, deleted |-> {d \in deleted : d[2] > 0}]
Dropped(model, table, keep) ==
    <<model, Cardinality(DOMAIN table) - Cardinality(keep)>>

\* ------------------------------------------------------------ pre_save hook
\* Faults of the receiver: a receiver that never fills the slug, one that
\* fills it on every save, one whose test is inverted, and one that fills
\* it only for a barcode that is not stored yet.
receiver_never_generates(instance, db) ==
    {[instance |-> instance, generated |-> FALSE]}

receiver_always_generates(instance, db) ==
    {[instance |-> [instance EXCEPT !.slug = s], generated |-> TRUE] :
        s \in unique_slug_generator(instance, db)}

receiver_once_per_barcode(instance, db) ==
    IF instance.slug = NoSlug /\ instance.barcode \notin DOMAIN db
    THEN {[instance |-> [instance EXCEPT !.slug = s], generated |-> TRUE] :
            s \in unique_slug_generator(instance, db)}
    ELSE {[instance |-> instance, generated |-> FALSE]}

receiver_inverted_test(instance, db) ==
    IF instance.slug # NoSlug
    THEN {[instance |-> [instance EXCEPT !.slug = s], generated |-> TRUE] :
            s \in unique_slug_generator(instance, db)}
    ELSE {[instance |-> instance, generated |-> FALSE]}

\* The receiver's possible results on an instance: the instance after it, and
\* whether the generator was called.
pre_save_product_receiver(instance, db) ==
    IF instance.slug = NoSlug
    THEN {[instance |-> [instance EXCEPT !.slug = s], generated |-> TRUE] :
            s \in unique_slug_generator(instance, db)}
    ELSE {[instance |-> instance, generated |-> FALSE]}

\* ------------------------------------------------------------ the row write
\* Fault: the slug column without unique=True.
SlugIsUnique_not_enforced(instance, db) == TRUE

\* slug = models.SlugField(unique=True): no other row may hold the slug.
SlugIsUnique(instance, db) ==
    \A b \in DOMAIN db \ {instance.barcode} : db[b].slug # instance.slug

\* category = models.ForeignKey(Category, ...): the category row must exist.
CategoryExists(instance, cats) == instance.category \in cats

\* barcode is the primary key: save() updates the row that holds it, and
\* inserts one when none does.
Upsert(db, instance) ==
    [b \in DOMAIN db \cup {instance.barcode} |->
        IF b = instance.barcode THEN Row(instance) ELSE db[b]]

\* How the write of an instance ends.
WriteOutcome(instance, db, cats) ==
    IF ~SlugIsUnique(instance, db) THEN "IntegrityError(slug)"
    ELSE IF ~CategoryExists(instance, cats) THEN "IntegrityError(category)"
    ELSE "saved"

\* ------------------------------------------------------- on_delete rules
\* Fault: Product.category with on_delete=models.DO_NOTHING.
ProductsKept_do_nothing(cats) == DOMAIN products

\* Product.category and PurchaseItem.category: on_delete=models.CASCADE.
ProductsKept(cats) == {b \in DOMAIN products : products[b].category \in cats}

\* PurchaseOrder.user: on_delete=models.CASCADE.
OrdersKept(us) == {o \in DOMAIN orders : orders[o].user \in us}

\* Fault: PurchaseItem.category with on_delete=models.DO_NOTHING.
ItemsKept_category_do_nothing(os, cats) ==
    {i \in DOMAIN items : items[i].order \in os}

\* PurchaseItem.purchase_order and PurchaseItem.category: CASCADE.
ItemsKept(os, cats) ==
    {i \in DOMAIN items : items[i].order \in os /\ items[i].category \in cats}

\* PurchasePaymentMethod.purchase_order: CASCADE.
AllocationsKept(os) == {a \in DOMAIN allocations : allocations[a].order \in os}

\* Fault: PurchasePaymentMethod.payment_method with
\* on_delete=models.DO_NOTHING.
IsProtected_do_nothing(m) == FALSE

\* PurchasePaymentMethod.payment_method: on_delete=models.PROTECT.
IsProtected(m) == \E a \in DOMAIN allocations : allocations[a].method = m

\* ---------------------------------------------------------------- actions
Init ==
    /\ users = {}
    /\ categories = {}
    /\ paymentMethods = {}
    /\ products = <<>>
    /\ orders = <<>>
    /\ items = <<>>
    /\ allocations = <<>>
    /\ response = Response("none", {})
    /\ requests = [p \in Requests |-> IdleRequest("none")]

CreateUser(u) ==
    /\ u \notin users
    /\ TotalRows < MaxRows
    /\ users' = users \cup {u}
    /\ response' = Response("ok", {})
    /\ UNCHANGED <<categories, paymentMethods, products, orders, items,
                   allocations, requests>>

DeleteUser(u) ==
    /\ u \in users
    /\ users' = users \ {u}
    /\ orders' = Restrict(orders, OrdersKept(users'))
    /\ items' = Restrict(items, ItemsKept(DOMAIN orders', categories))
    /\ allocations' = Restrict(allocations, AllocationsKept(DOMAIN orders'))
    /\ response' = Response("ok",
          {<<"User", 1>>,
           Dropped("PurchaseOrder", orders, DOMAIN orders'),
           Dropped("PurchaseItem", items, DOMAIN items'),
           Dropped("PurchasePaymentMethod", allocations, DOMAIN allocations')})
    /\ UNCHANGED <<categories, paymentMethods, products, requests>>

CreateCategory(c) ==
    /\ c \notin categories
    /\ TotalRows < MaxRows
    /\ categories' = categories \cup {c}
    /\ response' = Response("ok", {})
    /\ UNCHANGED <<users, paymentMethods, products, orders, items,
                   allocations, requests>>

DeleteCategory(c) ==
    /\ c \in categories
    /\ categories' = categories \ {c}
    /\ products' = Restrict(products, ProductsKept(categories'))
    /\ items' = Restrict(items, ItemsKept(DOMAIN orders, categories'))
    /\ response' = Response("ok",
          {<<"Category", 1>>,
           Dropped("Product", products, DOMAIN products'),
           Dropped("PurchaseItem", items, DOMAIN items')})
    /\ UNCHANGED <<users, paymentMethods, orders, allocations, requests>>

CreatePaymentMethod(m) ==
    /\ m \notin paymentMethods
    /\ TotalRows < MaxRows
    /\ paymentMethods' = paymentMethods \cup {m}
    /\ response' = Response("ok", {})
    /\ UNCHANGED <<users, categories, products, orders, items, allocations,
                   requests>>

DeletePaymentMethod(m) ==
    /\ m \in paymentMethods
    /\ IF IsProtected(m)
       THEN /\ response' = Response("ProtectedError", {})
            /\ UNCHANGED paymentMethods
       ELSE /\ response' = Response("ok", {<<"PaymentMethod", 1>>})
            /\ paymentMethods' = paymentMethods \ {m}
    /\ UNCHANGED <<users, categories, products, orders, items, allocations,
                   requests>>

\* PurchaseOrder(user=u, ...).save()
CreateOrder(u) ==
    /\ FreeKeys(Orders, orders) # {}
    /\ TotalRows < MaxRows
    /\ IF u \in users
       THEN /\ orders' = [o \in DOMAIN orders \cup {NewKey(Orders, orders)} |->
                            IF o \in DOMAIN orders THEN orders[o]
                            ELSE [user |-> u]]
            /\ response' = Response("ok", {})
       ELSE /\ response' = Response("IntegrityError", {})
            /\ UNCHANGED orders
    /\ UNCHANGED <<users, categories, paymentMethods, products, items,
                   allocations, requests>>

DeleteOrder(o) ==
    /\ o \in DOMAIN orders
    /\ orders' = Restrict(orders, DOMAIN orders \ {o})
    /\ items' = Restrict(items, ItemsKept(DOMAIN orders', categories))
    /\ allocations' = Restrict(allocations, AllocationsKept(DOMAIN orders'))
    /\ response' = Response("ok",
          {<<"PurchaseOrder", 1>>,
           Dropped("PurchaseItem", items, DOMAIN items'),
           Dropped("PurchasePaymentMethod", allocations, DOMAIN allocations')})
    /\ UNCHANGED <<users, categories, paymentMethods, products, requests>>

\* PurchaseItem(purchase_order=o, category=c, ...).save()
CreateItem(o, c) ==
    /\ FreeKeys(Items, items) # {}
    /\ TotalRows < MaxRows
    /\ IF o \in DOMAIN orders /\ c \in categories
       THEN /\ items' = [i \in DOMAIN items \cup {NewKey(Items, items)} |->
                           IF i \in DOMAIN items THEN items[i]
                           ELSE [order |-> o, category |-> c]]
            /\ response' = Response("ok", {})
       ELSE /\ response' = Response("IntegrityError", {})
            /\ UNCHANGED items
    /\ UNCHANGED <<users, categories, paymentMethods, products, orders,
                   allocations, requests>>

DeleteItem(i) ==
    /\ i \in DOMAIN items
    /\ items' = Restrict(items, DOMAIN items \ {i})
    /\ response' = Response("ok", {<<"PurchaseItem", 1>>})
    /\ UNCHANGED <<users, categories, paymentMethods, products, orders,
                   allocations, requests>>

\* PurchasePaymentMethod(purchase_order=o, payment_method=m, ...).save()
CreateAllocation(o, m) ==
    /\ FreeKeys(Allocations, allocations) # {}
    /\ TotalRows < MaxRows
    /\ IF o \in DOMAIN orders /\ m \in paymentMethods
       THEN /\ allocations' =
                 [a \in DOMAIN allocations
                        \cup {NewKey(Allocations, allocations)} |->
                     IF a \in DOMAIN allocations THEN allocations[a]
                     ELSE [order |-> o, method |-> m]]
            /\ response' = Response("ok", {})
       ELSE /\ response' = Response("IntegrityError", {})
            /\ UNCHANGED allocations
    /\ UNCHANGED <<users, categories, paymentMethods, products, orders,
                   items, requests>>

DeleteAllocation(a) ==
    /\ a \in DOMAIN allocations
    /\ allocations' = Restrict(allocations, DOMAIN allocations \ {a})
    /\ response' = Response("ok", {<<"PurchasePaymentMethod", 1>>})
    /\ UNCHANGED <<users, categories, paymentMethods, products, orders,
                   items, requests>>

DeleteProduct(b) ==
    /\ b \in DOMAIN products
    /\ products' = Restrict(products, DOMAIN products \ {b})
    /\ response' = Response("ok", {<<"Product", 1>>})
    /\ UNCHANGED <<users, categories, paymentMethods, orders, items,
                   allocations, requests>>

\* Product(barcode=b, title=t, category=c).save(), start to end with no
\* other request in between: the receiver, then the write.
SaveProduct(b, t, c) ==
    /\ b \in DOMAIN products \/ TotalRows < MaxRows
    /\ \E r \in pre_save_product_receiver(NewInstance(b, t, c), products) :
          LET outcome == WriteOutcome(r.instance, products, categories)
          IN  IF outcome = "saved"
              THEN /\ products' = Upsert(products, r.instance)
                   /\ response' = Response("saved", {})
              ELSE /\ response' = Response(outcome, {})
                   /\ UNCHANGED products
    /\ UNCHANGED <<users, categories, paymentMethods, orders, items,
                   allocations, requests>>

\* ---- a save in two steps, for requests that run at the same time
\* The other requests whose receiver generated a slug for another Product of
\* the same title and that have not written yet.
Rivals(p, instance) ==
    {q \in Requests \ {p} :
        /\ requests[q].pc = "write"
        /\ requests[q].generated
        /\ requests[q].instance.title = instance.title
        /\ requests[q].instance.barcode # instance.barcode}

\* save() up to the write: the pre_save signal runs the receiver on the
\* instance.  For the properties only, before records the slug the instance
\* had when the receiver was given it, and raced that two requests passed
\* the slug check before either wrote.
SendPreSave(p, instance) ==
    /\ requests[p].pc = "idle"
    /\ \E r \in pre_save_product_receiver(instance, products) :
          LET rivals == IF r.generated THEN Rivals(p, r.instance) ELSE {}
          IN  requests' = [q \in Requests |->
                 IF q = p
                 THEN [pc |-> "write", instance |-> r.instance,
                       before |-> instance.slug,
                       generated |-> r.generated, raced |-> rivals # {},
                       outcome |-> "none"]
                 ELSE IF q \in rivals
                      THEN [requests[q] EXCEPT !.raced = TRUE]
                      ELSE requests[q]]
    /\ UNCHANGED <<users, categories, paymentMethods, products, orders,
                   items, allocations, response>>

\* Product(barcode=b, title=t, category=c).save() begins: a new in-memory
\* instance, slug left blank.
SaveNew(p, b, t, c) == SendPreSave(p, NewInstance(b, t, c))

\* Product.objects.get(pk=b).save() begins: the instance is the stored row.
SaveLoaded(p, b) ==
    /\ b \in DOMAIN products
    /\ SendPreSave(p, [barcode |-> b, title |-> products[b].title,
                       slug |-> products[b].slug,
                       category |-> products[b].category])

\* The INSERT or UPDATE of the request's instance.
Write(p) ==
    /\ requests[p].pc = "write"
    /\ LET inst == requests[p].instance
           outcome == WriteOutcome(inst, products, categories)
       IN  /\ products' = IF outcome = "saved" THEN Upsert(products, inst)
                          ELSE products
           /\ requests' = [requests EXCEPT ![p] = IdleRequest(outcome)]
    /\ UNCHANGED <<users, categories, paymentMethods, orders, items,
                   allocations, response>>

\* ----------------------------------------------------------- specifications
\* One caller at a time, over all the tables.
Next ==
    \/ \E u \in Users : CreateUser(u)
    \/ \E u \in Users : DeleteUser(u)
    \/ \E c \in Categories : CreateCategory(c)
    \/ \E c \in Categories : DeleteCategory(c)
    \/ \E m \in PaymentMethods : CreatePaymentMethod(m)
    \/ \E m \in PaymentMethods : DeletePaymentMethod(m)
    \/ \E u \in Users : CreateOrder(u)
    \/ \E o \in Orders : DeleteOrder(o)
    \/ \E o \in Orders, c \in Categories : CreateItem(o, c)
    \/ \E i \in Items : DeleteItem(i)
    \/ \E o \in Orders, m \in PaymentMethods : CreateAllocation(o, m)
    \/ \E a \in Allocations : DeleteAllocation(a)
    \/ \E b \in Barcodes, t \in Titles, c \in Categories : SaveProduct(b, t, c)
    \/ \E b \in Barcodes : DeleteProduct(b)

Spec == Init /\ [][Next]_vars

\* The catalogue under two requests at once: one category, every barcode and
\* title.
CatalogueCategories == {1}

NextConcurrent ==
    \/ \E c \in CatalogueCategories : CreateCategory(c)
    \/ \E c \in CatalogueCategories : DeleteCategory(c)
    \/ \E p \in Requests, b \in Barcodes, t \in Titles,
          c \in CatalogueCategories : SaveNew(p, b, t, c)
    \/ \E p \in Requests, b \in Barcodes : SaveLoaded(p, b)
    \/ \E p \in Requests : Write(p)
    \/ \E b \in Barcodes : DeleteProduct(b)

SpecConcurrent == Init /\ [][NextConcurrent]_vars
\* ------------------------------------------------------------- properties
BeginStep(p) == requests[p].pc = "idle" /\ requests'[p].pc = "write"
WriteStep(p) == requests[p].pc = "write" /\ requests'[p].pc = "idle"

IsPrefix(a, b) == Len(a) <= Len(b) /\ SubSeq(b, 1, Len(a)) = a

RedShirtBase == <<"r", "e", "d", "-", "s", "h", "i", "r", "t">>

\* C1: in every reachable state, whatever the interleaving of the saves, no
\* two Product rows hold the same slug.
C1_SlugsAreUnique ==
    \A a \in DOMAIN products : \A b \in DOMAIN products :
        a # b => products[a].slug # products[b].slug

\* Two Products are stored and a write has just been refused for its slug.
C1_Witness ==
    /\ Cardinality(DOMAIN products) = 2
    /\ \E p \in Requests : requests[p].outcome = "IntegrityError(slug)"

\* C2: when two requests create two Products of the same title and both pass
\* the slug check before either writes, the write of each succeeds (its
\* category being there) and stores a slug that starts with the base form.
C2_RacingCreationsBothSucceed ==
    [][\A p \in Requests :
          (/\ WriteStep(p)
           /\ requests[p].raced
           /\ requests[p].instance.title = TitleRedShirt
           /\ requests[p].instance.category \in categories)
          => /\ requests'[p].outcome = "saved"
             /\ requests[p].instance.barcode \in DOMAIN products'
             /\ IsPrefix(RedShirtBase,
                         products'[requests[p].instance.barcode].slug)]_vars

\* C3: every stored Product has a non-empty slug, whatever its title.
C3_StoredSlugIsNotEmpty ==
    \A b \in DOMAIN products : products[b].slug # NoSlug

\* A Product whose title is punctuation and whitespace only is stored, under
\* a slug built on the fallback base.
C3_Witness ==
    \E b \in DOMAIN products :
        /\ products[b].title = TitlePunctuation
        /\ slugify(products[b].title) = <<>>
        /\ IsPrefix(FallbackBase, products[b].slug)

\* C4: when the receiver has run on an instance whose slug was not empty,
\* the slug is what it was and the generator was not called.
C4_HookKeepsExistingSlug ==
    \A p \in Requests :
        (requests[p].pc = "write" /\ requests[p].before # NoSlug)
        => /\ requests[p].instance.slug = requests[p].before
           /\ ~requests[p].generated

\* The receiver has run on a loaded instance: the request is about to write
\* a slug it did not generate.
C4_Witness ==
    \E p \in Requests :
        /\ requests[p].pc = "write"
        /\ requests[p].before # NoSlug
        /\ requests[p].instance.barcode \in DOMAIN products
        /\ products[requests[p].instance.barcode].slug = requests[p].before

\* C5: deleting a PaymentMethod that a PurchasePaymentMethod references
\* fails with ProtectedError and leaves the PaymentMethod rows and the
\* PurchasePaymentMethod rows as they were.
C5_ProtectedDeleteFails ==
    [][\A m \in PaymentMethods :
          (/\ DeletePaymentMethod(m)
           /\ \E a \in DOMAIN allocations : allocations[a].method = m)
          => /\ response'.status = "ProtectedError"
             /\ paymentMethods' = paymentMethods
             /\ allocations' = allocations]_vars

\* A delete has just been refused and the referencing row is still there.
C5_Witness ==
    /\ response.status = "ProtectedError"
    /\ \E a \in DOMAIN allocations : allocations[a].method \in paymentMethods

\* C6: a Category that exists can always be deleted; the delete succeeds,
\* removes every Product of that Category and leaves the Products of the
\* other Categories as they were.
C6_CategoryDeleteCascades ==
    /\ [](\A c \in categories : ENABLED DeleteCategory(c))
    /\ [][\A c \in Categories :
             DeleteCategory(c)
             => /\ response'.status = "ok"
                /\ c \notin categories'
                /\ \A b \in DOMAIN products' : products'[b].category # c
                /\ \A b \in DOMAIN products :
                      products[b].category # c
                      => b \in DOMAIN products' /\ products'[b] = products[b]
          ]_vars

\* A delete has just removed a Category and the Product of it, and a Product
\* of another Category is still stored.
C6_Witness ==
    /\ response = Response("ok", {<<"Category", 1>>, <<"Product", 1>>})
    /\ Cardinality(categories) = 1
    /\ Cardinality(DOMAIN products) = 1

\* C7: when Products are created one after the other, a new Product gets the
\* base form of its title as slug when no row holds it ("red-shirt" for
\* "Red Shirt"), and the base form, the separator and a token when a row
\* does; its slug differs from that of every other row.
C7_SequentialSlugs ==
    [][\A b \in Barcodes :
          (b \notin DOMAIN products /\ b \in DOMAIN products')
          => LET new == products'[b]
                 base == BaseOf(new.title)
             IN  /\ new.title = TitleRedShirt => base = RedShirtBase
                 /\ base \notin SlugsOf(products) => new.slug = base
                 /\ base \in SlugsOf(products)
                    => \E tok \in Tokens : new.slug = WithToken(base, tok)
                 /\ \A o \in DOMAIN products : products'[o].slug # new.slug
      ]_vars

\* Two Products of the title "Red Shirt" are stored: one under the base
\* form, the other under the base form with a token.
C7_Witness ==
    \E a \in DOMAIN products : \E b \in DOMAIN products :
        /\ products[a].title = TitleRedShirt
        /\ products[b].title = TitleRedShirt
        /\ products[a].slug = RedShirtBase
        /\ \E tok \in Tokens : products[b].slug = WithToken(RedShirtBase, tok)

\* C8: a write refused for its slug is followed by a retry under a new slug
\* or by a PersistenceError; the request never ends with the constraint
\* violation itself.
C8_UniqueViolationIsRetried ==
    [][\A p \in Requests :
          (WriteStep(p) /\ ~SlugIsUnique(requests[p].instance, products))
          => requests'[p].outcome = "PersistenceError"]_vars

\* C9 as claimed: a save that begins when its barcode is already stored
\* never calls the generator, and its write leaves the stored slug as it was.
C9_GeneratedOncePerProduct ==
    [][\A p \in Requests :
          /\ (BeginStep(p) /\ requests'[p].instance.barcode \in DOMAIN products)
             => ~requests'[p].generated
          /\ (WriteStep(p) /\ requests[p].instance.barcode \in DOMAIN products)
             => products'[requests[p].instance.barcode].slug
                   = products[requests[p].instance.barcode].slug]_vars

\* C9 as amended: the receiver calls the generator, once and before the
\* write, exactly when the instance it is given has no slug, also when the
\* barcode is already stored; a Product first stored has a slug; and the
\* slug of a stored Product changes only by the write of an instance that
\* carries another slug.
C9_GeneratedWhenInstanceHasNoSlug ==
    [][/\ \A p \in Requests :
             BeginStep(p)
             => /\ requests'[p].generated <=> requests'[p].before = NoSlug
                /\ requests'[p].instance.slug # NoSlug
       /\ \A b \in DOMAIN products' \ DOMAIN products :
             products'[b].slug # NoSlug
       /\ \A b \in DOMAIN products \cap DOMAIN products' :
             products'[b].slug # products[b].slug
             => \E p \in Requests :
                   /\ WriteStep(p)
                   /\ requests[p].instance.barcode = b
                   /\ requests[p].instance.slug # products[b].slug
                   /\ requests[p].instance.slug = products'[b].slug]_vars

\* The generator has run for a barcode that is stored, and the request is
\* about to replace the stored slug.
C9_Witness ==
    \E p \in Requests :
        /\ requests[p].pc = "write"
        /\ requests[p].generated
        /\ requests[p].instance.barcode \in DOMAIN products
        /\ requests[p].instance.slug # products[requests[p].instance.barcode].slug

\* C10: every row references rows that exist: Products and PurchaseItems a
\* Category, PurchaseOrders a user, PurchaseItems and PurchasePaymentMethods a
\* PurchaseOrder, PurchasePaymentMethods a PaymentMethod.
C10_ReferentialIntegrity ==
    /\ \A b \in DOMAIN products : products[b].category \in categories
    /\ \A o \in DOMAIN orders : orders[o].user \in users
    /\ \A i \in DOMAIN items :
          items[i].order \in DOMAIN orders /\ items[i].category \in categories
    /\ \A a \in DOMAIN allocations :
          /\ allocations[a].order \in DOMAIN orders
          /\ allocations[a].method \in paymentMethods

\* A delete has just removed a Category and the PurchaseItem that referenced
\* it; the order of the item is still there.
C10_Witness ==
    /\ response = Response("ok", {<<"Category", 1>>, <<"PurchaseItem", 1>>})
    /\ DOMAIN items = {}
    /\ DOMAIN orders # {}
====
